---- MODULE Spec2Model ----
(***************************************************************************)
(* docsExtractor: index.js (processLinks, extractToMarkdown,               *)
(* generateFileName) and chatGPT.js (ChatGPTService.organizeMarkdown).     *)
(*                                                                         *)
(* Strings are sequences of one-character strings.  The run is one Node    *)
(* process: module load (credential check), processLinks, and the          *)
(* per-URL pipeline of extractToMarkdown, one action per statement group.  *)
(* The outcomes of the network calls (axios.get, axios.post) and the       *)
(* result of the HTML-to-markdown library are chosen nondeterministically. *)
(* The filesystem is taken to be writable: fs.writeFileSync fails only     *)
(* where Node rejects its argument (a datum that is no string, which       *)
(* Node 14 and later refuse before the file is opened).                    *)
(***************************************************************************)
EXTENDS Integers, Sequences, FiniteSets, TLC

VARIABLES
    pc,            \* position of the single thread of control
    apiKey,        \* process.env.OPENAI_API_KEY is set
    linksFile,     \* content of linksExtractor.json on disk
    dirs,          \* output directories exist
    listRead,      \* linksExtractor.json has been read (history)
    links,         \* the parsed list
    idx,           \* 1-based position of the for-of loop
    report,        \* the report object of processLinks
    now,           \* logical clock read by new Date()
    html,          \* response.data of the fetch
    rawMarkdown,   \* local of extractToMarkdown
    cleanMarkdown, \* local of extractToMarkdown
    fileName,      \* local of extractToMarkdown
    error,         \* the exception in flight
    result,        \* value returned by extractToMarkdown
    rawFiles,      \* output/raw    : file name -> content
    cleanFiles,    \* output/clean  : file name -> content
    reportFiles,   \* output/reports: sequence of writes <<name, content>>
    pauses,        \* number of completed 1-second timers (history)
    exitCode,      \* process exit status: <<>> while running, then <<code>>
    stages,        \* history: per loop position, the stages that ran
    extracted      \* history: per loop position, how extractToMarkdown ended

vars == <<pc, apiKey, linksFile, dirs, listRead, links, idx, report, now, html,
          rawMarkdown, cleanMarkdown, fileName, error, result, rawFiles,
          cleanFiles, reportFiles, pauses, exitCode, stages, extracted>>

(***************************************************************************)
(* Bounds                                                                  *)
(***************************************************************************)
MaxLinks == 2
MaxPathLen == 3

(***************************************************************************)
(* Characters and strings                                                  *)
(***************************************************************************)
Lower == {"a","b","c","d","e","f","g","h","i","j","k","l","m",
          "n","o","p","q","r","s","t","u","v","w","x","y","z"}
Upper == {"A","B","C","D","E","F","G","H","I","J","K","L","M",
          "N","O","P","Q","R","S","T","U","V","W","X","Y","Z"}
Digit == {"0","1","2","3","4","5","6","7","8","9"}

None == "none"

\* the character class [a-zA-Z0-9-_] of generateFileName
FileNameChars == Lower \cup Upper \cup Digit \cup {"-", "_"}

RECURSIVE IndexOfAny(_, _, _)
\* first position >= from of a character of set cs in s, Len(s)+1 when none
IndexOfAny(s, cs, from) ==
    IF from > Len(s) THEN Len(s) + 1
    ELSE IF s[from] \in cs THEN from
    ELSE IndexOfAny(s, cs, from + 1)

RECURSIVE SplitSlash(_)
\* s.split('/')
SplitSlash(s) ==
    LET i == IndexOfAny(s, {"/"}, 1)
    IN  IF i > Len(s) THEN <<s>>
        ELSE <<SubSeq(s, 1, i - 1)>> \o SplitSlash(SubSeq(s, i + 1, Len(s)))

RECURSIVE JoinSlash(_)
\* "/" before every segment
JoinSlash(segs) ==
    IF segs = <<>> THEN <<>>
    ELSE <<"/">> \o Head(segs) \o JoinSlash(Tail(segs))

RECURSIVE DotSegments(_, _)
\* the URL parser's path state: "." dropped, ".." removes the last segment
DotSegments(segs, acc) ==
    IF segs = <<>> THEN acc
    ELSE LET s == Head(segs)
             last == Len(segs) = 1
         IN  IF s = <<".", ".">>
             THEN LET popped == IF acc = <<>> THEN acc ELSE SubSeq(acc, 1, Len(acc) - 1)
                  IN  DotSegments(Tail(segs), IF last THEN Append(popped, <<>>) ELSE popped)
             ELSE IF s = <<".">>
             THEN DotSegments(Tail(segs), IF last THEN Append(acc, <<>>) ELSE acc)
             ELSE DotSegments(Tail(segs), Append(acc, s))

\* new URL(url) for an http(s) URL: hostname and pathname
ParseURL(url) ==
    LET colon     == IndexOfAny(url, {":"}, 1)
        rest      == SubSeq(url, colon + 3, Len(url))      \* after "://"
        authEnd   == IndexOfAny(rest, {"/", "?", "#"}, 1)
        authority == SubSeq(rest, 1, authEnd - 1)
        portAt    == IndexOfAny(authority, {":"}, 1)
        pathEnd   == IndexOfAny(rest, {"?", "#"}, authEnd)
        path      == SubSeq(rest, authEnd, pathEnd - 1)
    IN  [hostname |-> SubSeq(authority, 1, portAt - 1),
         pathname |-> IF path = <<>> THEN <<"/">>
                      ELSE JoinSlash(DotSegments(SplitSlash(Tail(path)), <<>>))]

RECURSIVE StripTrailingSlashes(_)
\* .replace(/\/+$/, '')
StripTrailingSlashes(s) ==
    IF s # <<>> /\ s[Len(s)] = "/"
    THEN StripTrailingSlashes(SubSeq(s, 1, Len(s) - 1))
    ELSE s

\* .replace(/[^a-zA-Z0-9-_]/g, '_')
Sanitize(s) == [i \in 1..Len(s) |-> IF s[i] \in FileNameChars THEN s[i] ELSE "_"]

IndexSuffix == <<"_", "i", "n", "d", "e", "x">>

\* variant: the character class is applied to hostname and path together
generateFileNameSanitizeHost(url) ==
    LET urlObj == ParseURL(url)
        name   == Sanitize(urlObj.hostname \o StripTrailingSlashes(urlObj.pathname))
    IN  IF name = <<>> \/ name = urlObj.hostname THEN name \o IndexSuffix ELSE name

generateFileName(url) ==
    LET urlObj == ParseURL(url)
        name   == urlObj.hostname
                    \o Sanitize(StripTrailingSlashes(urlObj.pathname))
    IN  IF name = <<>> \/ name = urlObj.hostname THEN name \o IndexSuffix ELSE name


(***************************************************************************)
(* Inputs of a run                                                         *)
(***************************************************************************)
Https == <<"h", "t", "t", "p", "s", ":", "/", "/">>

\* the URLs a links file may hold: two that derive the same file name, one apart
Urls == { Https \o <<"a", "/", "x", "/", "y">>,
          Https \o <<"a", "/", "x", "_", "y">>,
          Https \o <<"a", "/">> }

RECURSIVE SeqsUpTo(_, _)
\* the sequences over S of length at most n
SeqsUpTo(S, n) ==
    IF n = 0 THEN {<<>>}
    ELSE LET shorter == SeqsUpTo(S, n - 1)
         IN  shorter \cup {Append(q, x) : q \in shorter, x \in S}

\* linksExtractor.json: absent, not JSON, JSON that is no array, or an array
LinksFiles ==
    {[kind |-> k, value |-> <<>>] : k \in {"missing", "unparsable", "notArray"}}
        \cup {[kind |-> "array", value |-> l] : l \in SeqsUpTo(Urls, MaxLinks)}

\* what turndown may return, and what the completion's message.content may be
RawDocs == {<<>>, <<"#", "a">>}
CleanDocs == {<<"#">>, <<"#", "a", "b">>}

\* generateFileName over the URLs of a run, tabulated
FileNameOf == [u \in Urls |-> generateFileName(u)]

FileNames == {FileNameOf[u] : u \in Urls}

DIRS == [raw |-> <<"output", "raw">>, clean |-> <<"output", "clean">>,
         reports |-> <<"output", "reports">>]

NoFile == <<"ENOENT">>

\* path.join(dir, `${fileName}.md`)
MdPath(dir, name) == dir \o <<name \o <<".", "m", "d">> >>

\* `${((1 - clean.length / raw.length) * 100).toFixed(1)}%`, in tenths of a percent
Compression(cleanSize, rawSize) ==
    IF rawSize = 0
    THEN [kind |-> IF cleanSize = 0 THEN "NaN" ELSE "-Infinity", tenths |-> 0]
    ELSE [kind |-> "number",
          tenths |-> (2 * 1000 * (rawSize - cleanSize) + rawSize) \div (2 * rawSize)]

\* JSON.stringify(report, null, 2)
Stringify(r) == <<"json", r>>

\* a completion's message.content (a string or null), a rejected call, and a
\* local not yet assigned
StringOf(text) == [type |-> "string", text |-> text]
NullContent == [type |-> "null", text |-> <<>>]
Rejected == [type |-> "rejected", text |-> <<>>]
Unset == [type |-> "unset", text |-> <<>>]

NoResult == [clean |-> <<>>, raw |-> <<>>, paths |-> [raw |-> <<>>, clean |-> <<>>],
             fileName |-> <<>>]

NoReport == [timestamp |-> 0, total |-> 0, successes |-> 0, errors |-> 0,
             directories |-> DIRS, details |-> <<>>]

(***************************************************************************)
(* Initial state: the process before index.js is loaded                    *)
(***************************************************************************)
Start(keys, filesOnDisk) ==
    /\ pc = "load"
    /\ apiKey \in keys
    /\ linksFile \in filesOnDisk
    /\ dirs = FALSE
    /\ listRead = FALSE
    /\ links = <<>>
    /\ idx = 0
    /\ report = NoReport
    /\ now = 0
    /\ html = None
    /\ rawMarkdown = <<>>
    /\ cleanMarkdown = Unset
    /\ fileName = <<>>
    /\ error = None
    /\ result = NoResult
    /\ rawFiles = [f \in FileNames |-> NoFile]
    /\ cleanFiles = [f \in FileNames |-> NoFile]
    /\ reportFiles = <<>>
    /\ pauses = 0
    /\ exitCode = <<>>
    /\ stages = <<>>
    /\ extracted = <<>>

Init == Start(BOOLEAN, LinksFiles)

locals == <<html, rawMarkdown, cleanMarkdown, fileName, result>>
files == <<rawFiles, cleanFiles, reportFiles>>
inputs == <<apiKey, linksFile>>

\* stage s ran at the current loop position and returned (ok) or threw
Ran(s, ok) == [stages EXCEPT ![idx] = Append(@, [stage |-> s, ok |-> ok])]

\* process.exit(1)
Exit1 == pc' = "exited" /\ exitCode' = <<1>>

(***************************************************************************)
(* index.js, module level                                                  *)
(***************************************************************************)
\* index.js 13-20
CheckApiKey ==
    /\ pc = "load"
    /\ IF ~apiKey THEN Exit1 ELSE pc' = "main" /\ UNCHANGED exitCode
    /\ UNCHANGED <<inputs, dirs, listRead, links, idx, report, now, locals, error,
                   files, pauses, stages, extracted>>

\* index.js 32-38 (called at 114)
createDirectories ==
    /\ pc = "main"
    /\ dirs' = TRUE
    /\ pc' = "read"
    /\ UNCHANGED <<inputs, listRead, links, idx, report, now, locals, error,
                   files, pauses, exitCode, stages, extracted>>

\* variant: the length test of line 126 is missing
ReadLinksNoEmptyCheck ==
    /\ pc = "read"
    /\ listRead' = TRUE
    /\ IF linksFile.kind \in {"missing", "unparsable"}
       THEN Exit1 /\ UNCHANGED links
       ELSE IF linksFile.kind # "array"
       THEN Exit1 /\ links' = linksFile.value
       ELSE pc' = "report" /\ links' = linksFile.value /\ UNCHANGED exitCode
    /\ UNCHANGED <<inputs, dirs, idx, report, now, locals, error, files, pauses,
                   stages, extracted>>

\* index.js 116-129
ReadLinks ==
    /\ pc = "read"
    /\ listRead' = TRUE
    /\ IF linksFile.kind \in {"missing", "unparsable"}
       THEN Exit1 /\ UNCHANGED links
       ELSE IF linksFile.kind # "array" \/ Len(linksFile.value) = 0
       THEN Exit1 /\ links' = linksFile.value
       ELSE pc' = "report" /\ links' = linksFile.value /\ UNCHANGED exitCode
    /\ UNCHANGED <<inputs, dirs, idx, report, now, locals, error, files, pauses,
                   stages, extracted>>

\* index.js 137-144
NewReport ==
    /\ pc = "report"
    /\ report' = [timestamp |-> now, total |-> Len(links), successes |-> 0,
                  errors |-> 0, directories |-> DIRS, details |-> <<>>]
    /\ now' = now + 1
    /\ idx' = 1
    /\ pc' = "loop"
    /\ UNCHANGED <<inputs, dirs, listRead, links, locals, error, files, pauses,
                   exitCode, stages, extracted>>

\* index.js 146: the for-of loop takes the next url or ends
LoopNext ==
    /\ pc = "loop"
    /\ IF idx <= Len(links)
       THEN pc' = "fetch" /\ stages' = Append(stages, <<>>)
       ELSE pc' = "save" /\ UNCHANGED stages
    /\ UNCHANGED <<inputs, dirs, listRead, links, idx, report, now, locals, error,
                   files, pauses, exitCode, extracted>>

(***************************************************************************)
(* extractToMarkdown(url), url = links[idx]                                *)
(***************************************************************************)

\* index.js 57-69: axios.get resolves with a body or rejects
Fetch ==
    /\ pc = "fetch"
    /\ \E r \in {"rejected", "string", "object"} :
          IF r = "rejected"
          THEN /\ error' = "fetch" /\ pc' = "catch" /\ UNCHANGED html
               /\ stages' = Ran("fetch", FALSE)
          ELSE /\ html' = r /\ pc' = "convert" /\ UNCHANGED error
               /\ stages' = Ran("fetch", TRUE)
    /\ UNCHANGED <<inputs, dirs, listRead, links, idx, report, now, rawMarkdown,
                   cleanMarkdown, fileName, result, files, pauses, exitCode,
                   extracted>>

\* index.js 70-75: turndown throws on a body that is no string
Convert ==
    /\ pc = "convert"
    /\ stages' = Ran("convert", html = "string")
    /\ IF html # "string"
       THEN error' = "turndown" /\ pc' = "catch" /\ UNCHANGED rawMarkdown
       ELSE /\ \E md \in RawDocs : rawMarkdown' = md
            /\ pc' = "clean"
            /\ UNCHANGED error
    /\ UNCHANGED <<inputs, dirs, listRead, links, idx, report, now, html,
                   cleanMarkdown, fileName, result, files, pauses, exitCode,
                   extracted>>

\* variant: the catch of chatGPT.js 131 returns the raw markdown instead of throwing
organizeMarkdownFallback ==
    /\ pc = "clean"
    /\ \E r \in {Rejected, NullContent} \cup {StringOf(d) : d \in CleanDocs} :
          /\ cleanMarkdown' = IF r = Rejected THEN StringOf(rawMarkdown) ELSE r
          /\ stages' = Ran("clean", r # Rejected)
    /\ pc' = "writeRaw"
    /\ UNCHANGED <<inputs, dirs, listRead, links, idx, report, now, html,
                   rawMarkdown, fileName, result, files, pauses, exitCode,
                   extracted, error>>

\* index.js 78-79, chatGPT.js 20-135: the post rejects or the response has no
\* choices[0].message (rethrown at 131-134), or message.content is returned
organizeMarkdown ==
    /\ pc = "clean"
    /\ \E r \in {Rejected, NullContent} \cup {StringOf(d) : d \in CleanDocs} :
          IF r = Rejected
          THEN /\ error' = "clean" /\ pc' = "catch" /\ UNCHANGED cleanMarkdown
               /\ stages' = Ran("clean", FALSE)
          ELSE /\ cleanMarkdown' = r /\ pc' = "writeRaw" /\ UNCHANGED error
               /\ stages' = Ran("clean", TRUE)
    /\ UNCHANGED <<inputs, dirs, listRead, links, idx, report, now, html,
                   rawMarkdown, fileName, result, files, pauses, exitCode,
                   extracted>>

\* index.js 82-90
WriteRaw ==
    /\ pc = "writeRaw"
    /\ fileName' = FileNameOf[links[idx]]
    /\ now' = now + 1
    /\ rawFiles' = [rawFiles EXCEPT ![fileName'] = rawMarkdown]
    /\ stages' = Ran("writeRaw", TRUE)
    /\ pc' = "writeClean"
    /\ UNCHANGED <<inputs, dirs, listRead, links, idx, report, html, rawMarkdown,
                   cleanMarkdown, error, result, cleanFiles, reportFiles, pauses,
                   exitCode, extracted>>

\* index.js 91-101: writeFileSync rejects a datum that is no string
WriteClean ==
    /\ pc = "writeClean"
    /\ IF cleanMarkdown.type # "string"
       THEN /\ error' = "write"
            /\ pc' = "catch"
            /\ stages' = Ran("writeClean", FALSE)
            /\ UNCHANGED <<cleanFiles, result, extracted>>
       ELSE /\ cleanFiles' = [cleanFiles EXCEPT ![fileName] = cleanMarkdown.text]
            /\ stages' = Ran("writeClean", TRUE)
            /\ result' = [clean |-> cleanMarkdown.text, raw |-> rawMarkdown,
                          paths |-> [raw |-> MdPath(DIRS.raw, fileName),
                                     clean |-> MdPath(DIRS.clean, fileName)],
                          fileName |-> fileName]
            /\ extracted' = Append(extracted, [ok |-> TRUE, cause |-> None,
                                               fileName |-> fileName,
                                               raw |-> rawMarkdown,
                                               clean |-> cleanMarkdown.text])
            /\ pc' = "success"
            /\ UNCHANGED error
    /\ UNCHANGED <<inputs, dirs, listRead, links, idx, report, now, html,
                   rawMarkdown, cleanMarkdown, fileName, rawFiles, reportFiles,
                   pauses, exitCode>>

\* index.js 103-106: log and rethrow
CatchExtract ==
    /\ pc = "catch"
    /\ extracted' = Append(extracted, [ok |-> FALSE, cause |-> error,
                                       fileName |-> <<>>, raw |-> <<>>,
                                       clean |-> <<>>])
    /\ pc' = "error"
    /\ UNCHANGED <<inputs, dirs, listRead, links, idx, report, now, locals, error,
                   files, pauses, exitCode, stages>>

(***************************************************************************)
(* processLinks, loop body and report                                      *)
(***************************************************************************)
SuccessEntry(url, res) ==
    [url |-> url, status |-> "success", fileName |-> res.fileName,
     cleanSize |-> Len(res.clean), rawSize |-> Len(res.raw),
     compression |-> Compression(Len(res.clean), Len(res.raw)),
     paths |-> res.paths, error |-> None, timestamp |-> 0]

ErrorEntry(url, message, time) ==
    [url |-> url, status |-> "error", fileName |-> <<>>, cleanSize |-> 0,
     rawSize |-> 0, compression |-> Compression(0, 0), paths |-> NoResult.paths,
     error |-> message, timestamp |-> time]

\* index.js 148-158
RecordSuccess ==
    /\ pc = "success"
    /\ report' = [report EXCEPT !.successes = @ + 1,
                                !.details = Append(@, SuccessEntry(links[idx], result))]
    /\ pc' = "sleep"
    /\ UNCHANGED <<inputs, dirs, listRead, links, idx, now, locals, error, files,
                   pauses, exitCode, stages, extracted>>

\* index.js 160-161: the timer fires and the loop goes on
Sleep ==
    /\ pc = "sleep"
    /\ pauses' = pauses + 1
    /\ idx' = idx + 1
    /\ pc' = "loop"
    /\ UNCHANGED <<inputs, dirs, listRead, links, report, now, locals, error, files,
                   exitCode, stages, extracted>>

\* variant: the catch of line 163 does not count the error
RecordErrorNoCount ==
    /\ pc = "error"
    /\ report' = [report EXCEPT
                    !.details = Append(@, ErrorEntry(links[idx], error, now))]
    /\ now' = now + 1
    /\ error' = None
    /\ idx' = idx + 1
    /\ pc' = "loop"
    /\ UNCHANGED <<inputs, dirs, listRead, links, locals, files, pauses, exitCode,
                   stages, extracted>>

\* variant: the catch of line 163 leaves the loop
RecordErrorBreak ==
    /\ pc = "error"
    /\ report' = [report EXCEPT !.errors = @ + 1,
                                !.details = Append(@, ErrorEntry(links[idx], error, now))]
    /\ now' = now + 1
    /\ error' = None
    /\ idx' = Len(links) + 1
    /\ pc' = "loop"
    /\ UNCHANGED <<inputs, dirs, listRead, links, locals, files, pauses, exitCode,
                   stages, extracted>>

\* variant: the error escapes processLinks (unhandled rejection)
RecordErrorRethrow ==
    /\ pc = "error"
    /\ pc' = "exited"
    /\ exitCode' = <<1>>
    /\ UNCHANGED <<inputs, dirs, listRead, links, idx, report, now, locals, error,
                   files, pauses, stages, extracted>>

\* index.js 163-171
RecordError ==
    /\ pc = "error"
    /\ report' = [report EXCEPT !.errors = @ + 1,
                                !.details = Append(@, ErrorEntry(links[idx], error, now))]
    /\ now' = now + 1
    /\ error' = None
    /\ idx' = idx + 1
    /\ pc' = "loop"
    /\ UNCHANGED <<inputs, dirs, listRead, links, locals, files, pauses, exitCode,
                   stages, extracted>>

ReportWrite(latest, stamp, r) ==
    [latest |-> latest, stamp |-> stamp, content |-> Stringify(r)]

\* index.js 174-179
SaveReport ==
    /\ pc = "save"
    /\ now' = now + 1
    /\ reportFiles' = Append(reportFiles, ReportWrite(FALSE, now, report))
    /\ pc' = "saveLatest"
    /\ UNCHANGED <<inputs, dirs, listRead, links, idx, report, locals, error,
                   rawFiles, cleanFiles, pauses, exitCode, stages, extracted>>

\* index.js 180
SaveLatest ==
    /\ pc = "saveLatest"
    /\ reportFiles' = Append(reportFiles, ReportWrite(TRUE, 0, report))
    /\ pc' = "summary"
    /\ UNCHANGED <<inputs, dirs, listRead, links, idx, report, now, locals, error,
                   rawFiles, cleanFiles, pauses, exitCode, stages, extracted>>

\* variant: the statistics filter report.details in place
SummaryFiltering ==
    /\ pc = "summary"
    /\ report' = [report EXCEPT
                    !.details = SelectSeq(@, LAMBDA d : d.status = "success")]
    /\ pc' = "exited"
    /\ exitCode' = <<0>>
    /\ UNCHANGED <<inputs, dirs, listRead, links, idx, now, locals, error, files,
                   pauses, stages, extracted>>

\* index.js 182-199: the summary reads the report; then processLinks returns,
\* nothing is pending and the process ends normally (202-204)
Summary ==
    /\ pc = "summary"
    /\ pc' = "exited"
    /\ exitCode' = <<0>>
    /\ UNCHANGED <<inputs, dirs, listRead, links, idx, report, now, locals, error,
                   files, pauses, stages, extracted>>

Next ==
    \/ CheckApiKey
    \/ createDirectories
    \/ ReadLinks
    \/ NewReport
    \/ LoopNext
    \/ Fetch
    \/ Convert
    \/ organizeMarkdown
    \/ WriteRaw
    \/ WriteClean
    \/ CatchExtract
    \/ RecordSuccess
    \/ Sleep
    \/ RecordError
    \/ SaveReport
    \/ SaveLatest
    \/ Summary

Spec == Init /\ [][Next]_vars

\* the thread of control always takes its next step
FairSpec == Init /\ [][Next]_vars /\ WF_vars(Next)

(***************************************************************************)
(* Runs that revisit a file name: a list one longer than MaxLinks whose    *)
(* URLs all derive the same file name, credential present                  *)
(***************************************************************************)
SameNameUrls == {u \in Urls : \E v \in Urls : v # u /\ FileNameOf[v] = FileNameOf[u]}

RepeatLists == SeqsUpTo(SameNameUrls, MaxLinks + 1) \ SeqsUpTo(SameNameUrls, MaxLinks)

RepeatInit == Start({TRUE}, {[kind |-> "array", value |-> l] : l \in RepeatLists})

RepeatSpec == RepeatInit /\ [][Next]_vars

(***************************************************************************)
(* generateFileName on its own: one call on a URL of a bounded set         *)
(***************************************************************************)
PathChars == {"/", "x", "-", "_", ".", "~"}

NameHosts == {<<"a">>, <<"a", ".", "b">>, <<"a", ":", "8">>}

ExampleHost == <<"e", "x", "a", "m", "p", "l", "e", ".", "c", "o", "m">>
ExampleRoot == Https \o ExampleHost \o <<"/">>
ExamplePage == Https \o ExampleHost \o <<"/", "d", "o", "c", "s", "/", "p", "a", "g", "e">>

NameUrls ==
    {Https \o h \o p \o q :
        h \in NameHosts,
        p \in {<<>>} \cup {<<"/">> \o t : t \in SeqsUpTo(PathChars, MaxPathLen)},
        q \in {<<>>, <<"?", "q">>}}
      \cup {ExampleRoot, ExamplePage}

NameInit ==
    /\ pc = "name"
    /\ apiKey = TRUE
    /\ \E u \in NameUrls :
          /\ linksFile = [kind |-> "array", value |-> <<u>>]
          /\ links = <<u>>
    /\ dirs = FALSE
    /\ listRead = FALSE
    /\ idx = 1
    /\ report = NoReport
    /\ now = 0
    /\ html = None
    /\ rawMarkdown = <<>>
    /\ cleanMarkdown = Unset
    /\ fileName = <<>>
    /\ error = None
    /\ result = NoResult
    /\ rawFiles = [f \in FileNames |-> NoFile]
    /\ cleanFiles = [f \in FileNames |-> NoFile]
    /\ reportFiles = <<>>
    /\ pauses = 0
    /\ exitCode = <<>>
    /\ stages = <<>>
    /\ extracted = <<>>

\* index.js 82: const fileName = generateFileName(url)
CallGenerateFileName ==
    /\ pc = "name"
    /\ fileName' = generateFileName(links[idx])
    /\ pc' = "named"
    /\ UNCHANGED <<inputs, dirs, listRead, links, idx, report, now, html,
                   rawMarkdown, cleanMarkdown, error, result, files, pauses,
                   exitCode, stages, extracted>>

NameSpec == NameInit /\ [][CallGenerateFileName]_vars

(***************************************************************************)
(* Properties                                                              *)
(***************************************************************************)
\* the report objects that were serialised to output/reports
Written == {reportFiles[w].content[2] : w \in 1..Len(reportFiles)}

Finished == pc = "exited" /\ exitCode = <<0>>

\* stage s was carried out at loop position i
Did(i, s) == \E k \in 1..Len(stages[i]) : stages[i][k].stage = s /\ stages[i][k].ok

StageOrder == <<"fetch", "convert", "clean", "writeRaw", "writeClean">>

\* C1: every report that is written has total equal to the number of input
\* URLs and successes + errors equal to total.
C1_ReportTotals ==
    \A r \in Written :
        /\ r.total = Len(linksFile.value)
        /\ r.successes + r.errors = r.total

C1_Witness ==
    \E r \in Written : r.successes >= 1 /\ r.errors >= 1 /\ r.total = Len(linksFile.value)

EntriesFollow(details) ==
    \A i \in 1..Len(details) :
        /\ i <= Len(extracted)
        /\ details[i].url = linksFile.value[i]
        /\ details[i].status = IF extracted[i].ok THEN "success" ELSE "error"

\* C2: the report's details has one entry per input position, in input order:
\* details[i].url = urls[i] and details[i].status is 'success' exactly when the
\* extraction of urls[i] returned; a failure does not stop the loop and
\* duplicates are not merged.
C2_EntriesFollowInput ==
    /\ EntriesFollow(report.details)
    /\ \A r \in Written :
          /\ Len(r.details) = Len(linksFile.value)
          /\ EntriesFollow(r.details)

C2_Witness ==
    \E r \in Written :
        /\ Len(r.details) = 2
        /\ linksFile.value[1] = linksFile.value[2]
        /\ r.details[1].status = "error"
        /\ r.details[2].status = "success"

\* C3: the stages run in the order fetch, convert, remote clean, persist and
\* none runs after an earlier one failed; a URL whose fetch or clean call
\* failed gets no file write and an error entry, and a file exists only where
\* a write stage ran.
C3_StagesInOrder ==
    /\ \A i \in 1..Len(stages) :
          LET st == stages[i]
          IN  /\ Len(st) <= Len(StageOrder)
              /\ \A k \in 1..Len(st) : st[k].stage = StageOrder[k]
              /\ \A k \in 1..(Len(st) - 1) : st[k].ok
              /\ (i <= Len(report.details) /\ ~st[Len(st)].ok)
                    => report.details[i].status = "error"
    /\ \A f \in FileNames :
          /\ rawFiles[f] # NoFile =>
                \E i \in 1..Len(stages) : FileNameOf[links[i]] = f /\ Did(i, "writeRaw")
          /\ cleanFiles[f] # NoFile =>
                \E i \in 1..Len(stages) : FileNameOf[links[i]] = f /\ Did(i, "writeClean")

C3_Witness ==
    \E i \in 1..Len(report.details) :
        /\ Len(stages[i]) = 3
        /\ stages[i][3] = [stage |-> "clean", ok |-> FALSE]
        /\ report.details[i].status = "error"
        /\ rawFiles[FileNameOf[links[i]]] = NoFile
        /\ cleanFiles[FileNameOf[links[i]]] = NoFile

\* C4: the 1-second pause happens after every URL, also after a failed one and
\* after the last one: whenever the loop is at its head, and when the report is
\* written, there were as many pauses as URLs processed.
C4_PauseAfterEveryUrl ==
    pc \in {"loop", "save", "saveLatest", "summary"} => pauses = Len(report.details)

\* C5: under a fatal condition (no credential; links file missing, unparsable,
\* no array or empty) the process exits non-zero, no URL is extracted and no
\* report is written; without the credential the links file is not even read.
C5_FatalExitsEarly ==
    LET fatal == \/ ~apiKey
                 \/ linksFile.kind # "array"
                 \/ linksFile.value = <<>>
    IN  /\ fatal => /\ stages = <<>>
                    /\ extracted = <<>>
                    /\ reportFiles = <<>>
                    /\ exitCode # <<0>>
                    /\ pc = "exited" => exitCode = <<1>>
        /\ exitCode = <<1>> => stages = <<>> /\ reportFiles = <<>>
        /\ ~apiKey => ~listRead

C5_Witness ==
    /\ pc = "exited"
    /\ exitCode = <<1>>
    /\ apiKey
    /\ listRead
    /\ linksFile = [kind |-> "array", value |-> <<>>]

\* C6: the report is written once, after every URL has been processed, to the
\* timestamped file and then to report_latest.json with the same content, and
\* the report object is the written one between and after the two writes.
C6_ReportWrittenOnce ==
    /\ Len(reportFiles) <= 2
    /\ \A w \in 1..Len(reportFiles) :
          /\ reportFiles[w].latest = (w = 2)
          /\ reportFiles[w].content = Stringify(report)
          /\ Len(report.details) = Len(links)
          /\ Len(extracted) = Len(links)
    /\ pc \in {"summary", "exited"} /\ exitCode # <<1>> =>
          /\ Len(reportFiles) = 2
          /\ reportFiles[1].content = reportFiles[2].content
    /\ pc \notin {"saveLatest", "summary", "exited"} => reportFiles = <<>>

C6_Witness ==
    /\ Finished
    /\ Len(reportFiles) = 2
    /\ reportFiles[1].content = reportFiles[2].content
    /\ report.successes >= 1
    /\ report.errors >= 1

\* C7: a run that passed the startup checks eventually has processed the whole
\* list, written the report and exited with status zero, whatever failed.
C7_RunCompletes ==
    (pc = "report") ~>
        (/\ Finished
         /\ Len(report.details) = Len(linksFile.value)
         /\ Len(reportFiles) = 2)

C7_Witness ==
    /\ Finished
    /\ report.total >= 2
    /\ report.errors = report.total
    /\ Len(reportFiles) = 2

\* number of characters of s before its trailing slashes
StrippedLen(s) == IF \A k \in 1..Len(s) : s[k] = "/" THEN 0
                  ELSE CHOOSE m \in 1..Len(s) :
                          /\ s[m] # "/"
                          /\ \A k \in (m + 1)..Len(s) : s[k] = "/"

NameShape(url, out) ==
    LET h == ParseURL(url).hostname
        p == ParseURL(url).pathname
        m == StrippedLen(p)
    IN  /\ SubSeq(out, 1, Len(h)) = h
        /\ \A i \in 1..m :
              out[Len(h) + i] = IF p[i] \in FileNameChars THEN p[i] ELSE "_"
        /\ IF m = 0 THEN out = h \o IndexSuffix ELSE Len(out) = Len(h) + m

ExampleRootName == ExampleHost \o IndexSuffix
ExamplePageName == ExampleHost \o <<"_", "d", "o", "c", "s", "_", "p", "a", "g", "e">>

C9_AllOrNothing ==
    \A i \in 1..Len(report.details) :
        IF report.details[i].status = "success"
        THEN Did(i, "writeRaw") /\ Did(i, "writeClean")
        ELSE ~Did(i, "writeRaw") /\ ~Did(i, "writeClean")

\* C10: when a file name is successfully extracted more than once in a run,
\* afterwards raw/<fileName>.md and clean/<fileName>.md hold the raw and clean
\* markdown of the last successful extraction, and each of these extractions
\* has a success entry pointing at these paths.
C10_LastSuccessWins ==
    Finished =>
        \A f \in FileNames :
            LET S == {i \in 1..Len(extracted) :
                        extracted[i].ok /\ extracted[i].fileName = f}
            IN  Cardinality(S) >= 2 =>
                    LET last == CHOOSE i \in S : \A j \in S : j <= i
                    IN  /\ rawFiles[f] = extracted[last].raw
                        /\ cleanFiles[f] = extracted[last].clean
                        /\ \A i \in S :
                              /\ report.details[i].status = "success"
                              /\ report.details[i].paths =
                                    [raw |-> MdPath(DIRS.raw, f),
                                     clean |-> MdPath(DIRS.clean, f)]
====
